---- MODULE Spec2Model ----
(***************************************************************************)
(* Interview session orchestrator of Evalia (src/main.py, src/domain.py).  *)
(* One Streamlit session: the session state, the results file, and one     *)
(* action per user event (a button press and the script run handling it).  *)
(* Text is a sequence of one-character strings, so that strip, split,      *)
(* lower and len are computed as Python computes them.                     *)
(***************************************************************************)
EXTENDS Integers, Sequences, FiniteSets, TLC

VARIABLES
    results,               \* st.session_state.results
    current_round,         \* st.session_state.current_round ("none" is None)
    current_question_idx,  \* st.session_state.current_question_idx
    audio_data,            \* st.session_state.audio_data ("none" is None)
    show_evaluation,       \* st.session_state.show_evaluation
    file,                  \* interview_results.json
    round_saved,           \* the last run of a completed round saved, so its button is on screen
    faulted,               \* the last run of a round handler raised, so the fault screen is shown
    next_taken,            \* history: Next Question was pressed for the last record of the round
    event                  \* history: the last user event and what its collaborators returned

vars == <<results, current_round, current_question_idx, audio_data,
          show_evaluation, file, round_saved, faulted, next_taken, event>>

----------------------------------------------------------------------------
(* Bounds of the model *)

MaxQuestions == 2      \* longest question list a generator returns
MaxEvalFailures == 1   \* evaluator failures followed within one round

(* Program constants *)

MinWords == 5
MinChars == 30

----------------------------------------------------------------------------
(* Text: str methods used by the program *)

LowerLetters == <<"a","b","c","d","e","f","g","h","i","j","k","l","m",
                  "n","o","p","q","r","s","t","u","v","w","x","y","z">>
UpperLetters == <<"A","B","C","D","E","F","G","H","I","J","K","L","M",
                  "N","O","P","Q","R","S","T","U","V","W","X","Y","Z">>

isspace(c) == c \in {" ", "\n", "\t"}

isalpha(c) == \E i \in 1..26 : c = LowerLetters[i] \/ c = UpperLetters[i]

lower_char(c) ==
    IF \E i \in 1..26 : c = UpperLetters[i]
    THEN LowerLetters[CHOOSE i \in 1..26 : c = UpperLetters[i]]
    ELSE c

lower(s) == [i \in 1..Len(s) |-> lower_char(s[i])]

RECURSIVE lstrip_chars(_, _)
lstrip_chars(s, chars) ==
    IF s # <<>> /\ Head(s) \in chars THEN lstrip_chars(Tail(s), chars) ELSE s

RECURSIVE rstrip_chars(_, _)
rstrip_chars(s, chars) ==
    IF s # <<>> /\ s[Len(s)] \in chars
    THEN rstrip_chars(SubSeq(s, 1, Len(s) - 1), chars)
    ELSE s

strip_chars(s, chars) == rstrip_chars(lstrip_chars(s, chars), chars)

strip(s) == strip_chars(s, {" ", "\n", "\t"})

\* len(s.split()): the number of maximal runs of non-whitespace characters
split_len(s) ==
    Cardinality({i \in 1..Len(s) :
                    /\ ~isspace(s[i])
                    /\ (i = 1 \/ isspace(s[i - 1]))})

any_alpha(s) == \E i \in 1..Len(s) : isalpha(s[i])

truthy(s) == s # <<>>

----------------------------------------------------------------------------
(* Inputs *)

Rep(n, c) == [i \in 1..n |-> c]

RECURSIVE WordsOf(_, _, _)
WordsOf(n, len, c) ==
    IF n = 0 THEN <<>>
    ELSE IF n = 1 THEN Rep(len, c)
    ELSE WordsOf(n - 1, len, c) \o <<" ">> \o Rep(len, c)

EmptyJD    == <<>>
BlankJD    == <<" ", "\n", " ">>
FourWordJD == WordsOf(MinWords - 1, 8, "a")            \* 4 words, 35 characters
DigitsJD   == WordsOf(MinWords, 6, "7")                \* 5 words, 34 characters, no letter
ShortJD    == WordsOf(MinWords, 5, "a")                \* 5 words, 29 characters
ValidJD    == WordsOf(MinWords, 5, "a") \o <<"\n">>    \* 5 words, 30 characters

JobDescriptions == {EmptyJD, BlankJD, FourWordJD, DigitsJD, ShortJD, ValidJD}

\* message.content of the language service's reply
RawOutputs ==
    { <<"Q","A">>,
      <<" ","\"","Q","A","\"","\n">>,
      <<"u","n","k","n","o","w","n">>,
      <<"U","N","K","N","O","W","N","\n">>,
      <<"\"","\"">>,
      <<" ">> }

EditedDomains == { <<>>, <<" "," ">>, <<"M","L">> }

Answers == {"a1"}
Scores == {10}

----------------------------------------------------------------------------
(* Session state *)

None == <<>>          \* an absent evaluation
Some(v) == <<v>>      \* a present evaluation

required_results ==
    [domain |-> <<>>, hr_questions |-> <<>>, tech_questions |-> <<>>,
     hr_results |-> <<>>, tech_results |-> <<>>]

required_state ==
    [results |-> required_results,
     current_round |-> "none",
     current_question_idx |-> 0,
     audio_data |-> "none",
     show_evaluation |-> FALSE]

StateKeys == DOMAIN required_state

session_state ==
    [results |-> results,
     current_round |-> current_round,
     current_question_idx |-> current_question_idx,
     audio_data |-> audio_data,
     show_evaluation |-> show_evaluation]

\* the keys still in st.session_state when initialize_session_state runs
initialize_session_state(present, st) ==
    [k \in StateKeys |-> IF k \in present THEN st[k] ELSE required_state[k]]

\* "for key in list(st.session_state.keys()): del st.session_state[key]"
keys_left_after_reset_missing_results == {"results"}
keys_left_after_reset == {}

NoFile == [state |-> "absent", content |-> required_results]

SaveFailedMessage == "Failed to save interview results."

\* what st.error shows in an event of the given outcome ("" when nothing is shown)
error_message(name, outcome) ==
    CASE outcome = "empty" ->
            IF name = "submit_edited_domain" THEN "Please enter a domain/title"
            ELSE "Please enter a job description"
      [] outcome = "few_words" -> "Please enter a proper job description (at least 5 words)"
      [] outcome = "no_alpha" -> "Please enter meaningful text, not just numbers/symbols"
      [] outcome = "few_chars" -> "Description too short - please provide more details"
      [] outcome = "unknown" ->
            "Couldn't identify a valid domain - please provide a clearer job description"
      [] outcome \in {"hr_generator_failed", "tech_generator_failed"} ->
            "Failed to generate interview questions. Please try again."
      [] outcome = "capture_failed" -> "Failed to record audio. Please try again."
      [] outcome = "transcribe_failed" -> "Failed to transcribe your answer. Please try again."
      [] outcome = "evaluate_failed" -> "Failed to evaluate your answer. Please try again."
      [] outcome = "save_failed" -> SaveFailedMessage
      [] outcome = "error" -> "Chatbot encountered an error. Returning to dashboard."
      [] OTHER -> ""

\* what main shows when conduct_round raises
fault_message(rt) == rt \o " round encountered an error. Please start a new interview."

Ev(name, outcome, calls) ==
    [name |-> name, outcome |-> outcome, calls |-> calls,
     message |-> error_message(name, outcome),
     text |-> <<>>, replies |-> <<>>, label |-> <<>>,
     hr_out |-> <<>>, tech_out |-> <<>>]

Rounds == {"hr_round", "tech_round"}
AllRounds == {"none", "domain_confirmation", "domain_edit", "hr_round",
              "tech_round", "dashboard", "chatbot"}

round_type(r) == IF r = "tech_round" THEN "Technical" ELSE "HR"
round_prefix(rt) == IF rt = "Technical" THEN "tech" ELSE "hr"
question_key(rt) == IF round_prefix(rt) = "tech" THEN "tech_questions" ELSE "hr_questions"
results_key(rt) == IF round_prefix(rt) = "tech" THEN "tech_results" ELSE "hr_results"

Init ==
    /\ results = required_state.results
    /\ current_round = required_state.current_round
    /\ current_question_idx = required_state.current_question_idx
    /\ audio_data = required_state.audio_data
    /\ show_evaluation = required_state.show_evaluation
    /\ file = NoFile
    /\ round_saved = FALSE
    /\ faulted = FALSE
    /\ next_taken = FALSE
    /\ event = Ev("start", "ok", {})

----------------------------------------------------------------------------
(* Home page: domain identification *)

validate_without_length(jd) ==
    IF ~truthy(strip(jd)) THEN "empty"
    ELSE IF split_len(jd) < MinWords THEN "few_words"
    ELSE IF ~any_alpha(jd) THEN "no_alpha"
    ELSE "valid"

validate(jd) ==
    IF ~truthy(strip(jd)) THEN "empty"
    ELSE IF split_len(jd) < MinWords THEN "few_words"
    ELSE IF ~any_alpha(jd) THEN "no_alpha"
    ELSE IF Len(jd) < MinChars THEN "few_chars"
    ELSE "valid"

Unknown == <<"U","n","k","n","o","w","n">>

Replies ==
    {[status |-> "error", content |-> <<>>],
     [status |-> "no_content", content |-> <<>>]}
    \cup {[status |-> "ok", content |-> r] : r \in RawOutputs}

predict_domain(primary, fallback) ==
    LET response == IF primary.status # "error" THEN primary ELSE fallback
    IN  IF response.status # "ok" THEN Unknown
        ELSE strip_chars(strip(response.content), {"\""})

\* the statuses of the completions.create calls predict_domain made
attempts(primary, fallback) ==
    IF primary.status = "error" THEN <<primary.status, fallback.status>>
    ELSE <<primary.status>>

is_unknown_case_sensitive(label) ==
    ~truthy(label) \/ label = <<"u","n","k","n","o","w","n">>

is_unknown(label) ==
    ~truthy(label) \/ lower(label) = <<"u","n","k","n","o","w","n">>

\* the two pure functions, tabulated once over the inputs of the model
Verdicts == [jd \in JobDescriptions |-> validate(jd)]
Predictions == [run \in Replies \X Replies |-> predict_domain(run[1], run[2])]
UnknownLabels == {label \in {Predictions[run] : run \in Replies \X Replies} : is_unknown(label)}

SubmitJobDescription(jd, primary, fallback) ==
    /\ current_round = "none"
    /\ LET verdict == Verdicts[jd]
           predicted_domain == Predictions[<<primary, fallback>>]
       IN  IF verdict # "valid"
           THEN /\ event' = [Ev("submit_job_description", verdict, {}) EXCEPT !.text = jd]
                /\ UNCHANGED <<results, current_round>>
           ELSE IF predicted_domain \in UnknownLabels
           THEN /\ event' = [Ev("submit_job_description", "unknown", {"classifier"})
                                EXCEPT !.text = jd, !.label = predicted_domain,
                                       !.replies = attempts(primary, fallback)]
                /\ UNCHANGED <<results, current_round>>
           ELSE /\ results' = [results EXCEPT !.domain = predicted_domain]
                /\ current_round' = "domain_confirmation"
                /\ event' = [Ev("submit_job_description", "classified", {"classifier"})
                                EXCEPT !.text = jd, !.label = predicted_domain,
                                       !.replies = attempts(primary, fallback)]
    /\ UNCHANGED <<current_question_idx, audio_data, show_evaluation, file,
                   round_saved, faulted, next_taken>>

----------------------------------------------------------------------------
(* Domain confirmation and editing *)

QuestionList(prefix, n) == [i \in 1..n |-> <<prefix, i>>]

GeneratorOutcomes(prefix) ==
    {[status |-> "error", questions |-> <<>>]}
    \cup {[status |-> "ok", questions |-> QuestionList(prefix, n)] : n \in 1..MaxQuestions}

store_questions_swapped(res, key, questions) ==
    [res EXCEPT ![IF key = "hr_questions" THEN "tech_questions" ELSE "hr_questions"] = questions]

store_questions(res, key, questions) == [res EXCEPT ![key] = questions]

\* the two generate_questions calls and the assignments around them
generate(res, domain, hr, tech) ==
    IF hr.status = "error" THEN res
    ELSE IF tech.status = "error" THEN store_questions(res, "hr_questions", hr.questions)
    ELSE store_questions(store_questions(res, "hr_questions", hr.questions),
                         "tech_questions", tech.questions)

generate_outcome(hr, tech) ==
    IF hr.status = "error" THEN "hr_generator_failed"
    ELSE IF tech.status = "error" THEN "tech_generator_failed"
    ELSE "generated"

generate_calls(hr) ==
    IF hr.status = "error" THEN {"hr_generator"} ELSE {"hr_generator", "tech_generator"}

ConfirmDomain(hr, tech) ==
    /\ current_round = "domain_confirmation"
    /\ LET domain == results.domain
       IN  /\ results' = generate(results, domain, hr, tech)
           /\ current_round' = IF generate_outcome(hr, tech) = "generated"
                               THEN "hr_round" ELSE current_round
           /\ event' = [Ev("confirm_domain", generate_outcome(hr, tech), generate_calls(hr))
                           EXCEPT !.text = domain, !.hr_out = hr.questions,
                                  !.tech_out = tech.questions]
    /\ UNCHANGED <<current_question_idx, audio_data, show_evaluation, file,
                   round_saved, faulted, next_taken>>

RejectDomain_to_hr_round ==
    /\ current_round = "domain_confirmation"
    /\ current_round' = "hr_round"
    /\ event' = Ev("reject_domain", "ok", {})
    /\ UNCHANGED <<results, current_question_idx, audio_data, show_evaluation, file,
                   round_saved, faulted, next_taken>>

RejectDomain ==
    /\ current_round = "domain_confirmation"
    /\ current_round' = "domain_edit"
    /\ event' = Ev("reject_domain", "ok", {})
    /\ UNCHANGED <<results, current_question_idx, audio_data, show_evaluation, file,
                   round_saved, faulted, next_taken>>

SubmitEditedDomain(new_domain, hr, tech) ==
    /\ current_round = "domain_edit"
    /\ IF ~truthy(strip(new_domain))
       THEN /\ event' = [Ev("submit_edited_domain", "empty", {}) EXCEPT !.text = new_domain]
            /\ UNCHANGED <<results, current_round, current_question_idx>>
       ELSE /\ results' = generate([results EXCEPT !.domain = new_domain],
                                   new_domain, hr, tech)
            /\ IF generate_outcome(hr, tech) = "generated"
               THEN current_round' = "hr_round" /\ current_question_idx' = 0
               ELSE UNCHANGED <<current_round, current_question_idx>>
            /\ event' = [Ev("submit_edited_domain", generate_outcome(hr, tech),
                            generate_calls(hr))
                            EXCEPT !.text = new_domain, !.hr_out = hr.questions,
                                   !.tech_out = tech.questions]
    /\ UNCHANGED <<audio_data, show_evaluation, file, round_saved, faulted, next_taken>>

----------------------------------------------------------------------------
(* Collaborators of a round *)

CaptureOutcomes == {"raised", "audio"}

Transcriptions ==
    {[status |-> "error", text |-> ""], [status |-> "ok", text |-> ""]}
    \cup {[status |-> "ok", text |-> a] : a \in Answers}

Evaluations == {[score |-> s] : s \in Scores}

\* an evaluation the evaluator hands back without a score
MalformedEvaluations == {[feedback |-> "f"]}

Evaluator ==
    {[status |-> "error", evaluation |-> [score |-> 0]]}
    \cup {[status |-> "ok", evaluation |-> e] : e \in Evaluations \cup MalformedEvaluations}

SaveOutcomes == {"ok", "open_failed", "write_failed"}

save_always_succeeded(outcome) == TRUE

\* the value save_results returns
save_succeeded(outcome) == outcome = "ok"

\* json.dump of one answer record: None is written as null, an evaluation as
\* an object
json_record(r) ==
    [question |-> r.question, answer |-> r.answer,
     evaluation |-> IF r.evaluation = None THEN <<"null">>
                    ELSE <<"object", r.evaluation[1]>>]

json_dump_without_tech_results(res) ==
    [res EXCEPT !.hr_results = [k \in DOMAIN @ |-> json_record(@[k])],
                !.tech_results = <<>>]

\* json.dump(results, f, indent=2): the document written for the results
json_dump(res) ==
    [res EXCEPT !.hr_results = [k \in DOMAIN @ |-> json_record(@[k])],
                !.tech_results = [k \in DOMAIN @ |-> json_record(@[k])]]

\* the results a document denotes when it is read back
json_load_record(j) ==
    [question |-> j.question, answer |-> j.answer,
     evaluation |-> IF j.evaluation[1] = "null" THEN None ELSE Some(j.evaluation[2])]

json_load(doc) ==
    [doc EXCEPT !.hr_results = [k \in DOMAIN @ |-> json_load_record(@[k])],
                !.tech_results = [k \in DOMAIN @ |-> json_load_record(@[k])]]

\* open(..., "w") truncates the file before json.dump writes it
save_results(res, f, outcome) ==
    IF outcome = "ok" THEN [state |-> "written", content |-> json_dump(res)]
    ELSE IF outcome = "open_failed" THEN f
    ELSE [state |-> "partial", content |-> required_results]

----------------------------------------------------------------------------
(* conduct_round *)

questions == results[question_key(round_type(current_round))]
round_results == results[results_key(round_type(current_round))]

InQuestion ==
    /\ current_round \in Rounds
    /\ ~faulted
    /\ current_question_idx < Len(questions)

RoundCompleted ==
    /\ current_round \in Rounds
    /\ ~faulted
    /\ ~(current_question_idx < Len(questions))

new_record_evaluated(question, transcription) ==
    [question |-> question, answer |-> transcription, evaluation |-> Some([score |-> 0])]

new_record(question, transcription) ==
    [question |-> question, answer |-> transcription, evaluation |-> None]

set_first_evaluation(rs, evaluation) ==
    [rs EXCEPT ![1].evaluation = Some(evaluation)]

\* results[results_key][-1]["evaluation"] = evaluation
set_last_evaluation(rs, evaluation) ==
    [rs EXCEPT ![Len(rs)].evaluation = Some(evaluation)]

overwrite_last_record(rs, record) ==
    IF rs = <<>> THEN <<record>> ELSE [rs EXCEPT ![Len(rs)] = record]

\* st.session_state.results[results_key].append({...})
append_record(rs, record) == Append(rs, record)

\* evaluation['score'] of the evaluation display section
has_score(evaluation) == "score" \in DOMAIN evaluation

\* the evaluation display section raises on the last record of the round
display_raises(rs) ==
    LET evaluation == rs[Len(rs)].evaluation
    IN  evaluation = None \/ ~has_score(evaluation[1])

same_idx(i) == i

skip_idx(i) == i + 2

\* st.session_state.current_question_idx += 1
next_idx(i) == i + 1

\* the record_audio widget hands over a recording (or raises)
CaptureAnswer(outcome) ==
    /\ InQuestion
    /\ ~show_evaluation
    /\ IF outcome = "raised"
       THEN /\ event' = Ev("capture", "capture_failed", {"capture"})
            /\ UNCHANGED audio_data
       ELSE /\ audio_data' = "audio"
            /\ event' = Ev("capture", "captured", {"capture"})
    /\ UNCHANGED <<results, current_round, current_question_idx, show_evaluation,
                   file, round_saved, faulted, next_taken>>

SubmitAnswer(t, e) ==
    /\ InQuestion
    /\ ~show_evaluation
    /\ audio_data # "none"
    /\ e.status = "error" =>
           Len(round_results) < current_question_idx + MaxEvalFailures
    /\ LET rt == round_type(current_round)
           question == questions[current_question_idx + 1]
           appended == append_record(round_results, new_record(question, t.text))
       IN  IF t.status = "error"
           THEN /\ event' = Ev("submit_answer", "transcribe_failed", {"transcriber"})
                /\ UNCHANGED <<results, show_evaluation, next_taken, faulted>>
           ELSE IF t.text = ""
           THEN /\ event' = Ev("submit_answer", "transcribe_empty", {"transcriber"})
                /\ UNCHANGED <<results, show_evaluation, next_taken, faulted>>
           ELSE IF e.status = "error"
           THEN /\ results' = [results EXCEPT ![results_key(rt)] = appended]
                /\ next_taken' = FALSE
                /\ event' = Ev("submit_answer", "evaluate_failed",
                               {"transcriber", "evaluator"})
                /\ UNCHANGED <<show_evaluation, faulted>>
           ELSE LET evaluated == set_last_evaluation(appended, e.evaluation)
                IN  /\ results' = [results EXCEPT ![results_key(rt)] = evaluated]
                    /\ show_evaluation' = TRUE
                    /\ next_taken' = FALSE
                    /\ faulted' = display_raises(evaluated)
                    /\ event' = [Ev("submit_answer", "evaluated",
                                    {"transcriber", "evaluator"})
                                    EXCEPT !.message =
                                        IF display_raises(evaluated)
                                        THEN fault_message(rt) ELSE @]
    /\ UNCHANGED <<current_round, current_question_idx, audio_data, file, round_saved>>

ReRecord_after_evaluation ==
    /\ InQuestion
    /\ audio_data # "none"
    /\ audio_data' = "none"
    /\ event' = Ev("re_record", "ok", {})
    /\ UNCHANGED <<results, current_round, current_question_idx, show_evaluation,
                   file, round_saved, faulted, next_taken>>

ReRecord ==
    /\ InQuestion
    /\ ~show_evaluation
    /\ audio_data # "none"
    /\ audio_data' = "none"
    /\ event' = Ev("re_record", "ok", {})
    /\ UNCHANGED <<results, current_round, current_question_idx, show_evaluation,
                   file, round_saved, faulted, next_taken>>

\* an event in which save_results ran, with what the write did
Saved(e, save) == [e EXCEPT !.replies = <<save>>]

run_outcome(save) == IF save_succeeded(save) THEN "saved" ELSE "save_failed"

Persist_never_offers(res, idx, save) ==
    IF idx < Len(res[question_key(round_type(current_round))])
    THEN UNCHANGED <<file, round_saved>>
    ELSE /\ file' = save_results(res, file, save)
         /\ round_saved' = FALSE

\* the completed branch of a run: save_results, then the round's button
Persist(res, idx, save) ==
    IF idx < Len(res[question_key(round_type(current_round))])
    THEN UNCHANGED <<file, round_saved>>
    ELSE /\ file' = save_results(res, file, save)
         /\ round_saved' = save_succeeded(save)

NextQuestion(save) ==
    /\ InQuestion
    /\ show_evaluation
    /\ current_question_idx' = next_idx(current_question_idx)
    /\ audio_data' = "none"
    /\ show_evaluation' = FALSE
    /\ next_taken' = TRUE
    /\ Persist(results, current_question_idx', save)
    /\ event' = IF current_question_idx' < Len(questions)
                THEN Ev("next_question", "ok", {})
                ELSE Saved(Ev("next_question", run_outcome(save), {"persister"}), save)
    /\ UNCHANGED <<results, current_round, faulted>>

\* any further run of the script on a completed round
Rerun(save) ==
    /\ RoundCompleted
    /\ Persist(results, current_question_idx, save)
    /\ event' = Saved(Ev("rerun", run_outcome(save), {"persister"}), save)
    /\ UNCHANGED <<results, current_round, current_question_idx, audio_data,
                   show_evaluation, faulted, next_taken>>

ContinueToNextRound(save) ==
    /\ RoundCompleted
    /\ current_round = "hr_round"
    /\ round_saved
    /\ file' = save_results(results, file, save)
    /\ round_saved' = FALSE
    /\ IF ~save_succeeded(save)
       THEN /\ event' = Saved(Ev("continue_to_next_round", "save_failed", {"persister"}), save)
            /\ UNCHANGED <<current_round, current_question_idx, show_evaluation, next_taken>>
       ELSE /\ current_round' = "tech_round"
            /\ current_question_idx' = 0
            /\ show_evaluation' = FALSE
            /\ next_taken' = FALSE
            /\ event' = Saved(Ev("continue_to_next_round", "ok", {"persister"}), save)
    /\ UNCHANGED <<results, audio_data, faulted>>

ViewResults(save) ==
    /\ RoundCompleted
    /\ current_round = "tech_round"
    /\ round_saved
    /\ file' = save_results(results, file, save)
    /\ round_saved' = FALSE
    /\ IF ~save_succeeded(save)
       THEN /\ event' = Saved(Ev("view_results", "save_failed", {"persister"}), save)
            /\ UNCHANGED current_round
       ELSE /\ current_round' = "dashboard"
            /\ event' = Saved(Ev("view_results", "ok", {"persister"}), save)
    /\ UNCHANGED <<results, current_question_idx, audio_data, show_evaluation,
                   faulted, next_taken>>

----------------------------------------------------------------------------
(* Round faults, dashboard and chatbot *)

\* The reset leaves interview_results.json alone.  The program never reads the
\* file, so what an earlier interview wrote is kept as a file of state
\* "previous" without its content.
previous_interview(f) ==
    IF f.state = "written" THEN [state |-> "previous", content |-> required_results]
    ELSE f

Reset(left) ==
    LET st == initialize_session_state(left, session_state)
    IN  /\ results' = st.results
        /\ current_round' = st.current_round
        /\ current_question_idx' = st.current_question_idx
        /\ audio_data' = st.audio_data
        /\ show_evaluation' = st.show_evaluation
        /\ round_saved' = FALSE
        /\ faulted' = FALSE
        /\ next_taken' = FALSE
        /\ file' = previous_interview(file)

\* an exception escapes conduct_round; main shows the fault screen
RoundFault ==
    /\ current_round \in Rounds
    /\ ~faulted
    /\ faulted' = TRUE
    /\ round_saved' = FALSE
    /\ event' = [Ev("round_fault", "raised", {})
                    EXCEPT !.message = fault_message(round_type(current_round))]
    /\ UNCHANGED <<results, current_round, current_question_idx, audio_data,
                   show_evaluation, file, next_taken>>

\* the stored data makes every run of the round raise
fault_recurs ==
    /\ current_question_idx < Len(questions)
    /\ show_evaluation
    /\ display_raises(round_results)

\* "Start New Interview" on the fault screen: the button is read in the except
\* branch, so the press counts only if the handler raises again in that run;
\* otherwise that run renders the round as usual
StartNewInterviewAfterFault(raises, save) ==
    /\ current_round \in Rounds
    /\ faulted
    /\ fault_recurs => raises
    /\ IF raises
       THEN /\ Reset(keys_left_after_reset)
            /\ event' = Ev("start_new_interview", "reset_after_fault", {})
       ELSE /\ faulted' = FALSE
            /\ Persist(results, current_question_idx, save)
            /\ event' = IF current_question_idx < Len(questions)
                        THEN Ev("start_new_interview", "not_offered", {})
                        ELSE Saved([Ev("start_new_interview", "not_offered", {"persister"})
                                       EXCEPT !.message =
                                           error_message("rerun", run_outcome(save))], save)
            /\ UNCHANGED <<results, current_round, current_question_idx, audio_data,
                           show_evaluation, next_taken>>

StartNewInterview ==
    /\ current_round = "dashboard"
    /\ Reset(keys_left_after_reset)
    /\ event' = Ev("start_new_interview", "reset", {})

OpenChat ==
    /\ current_round = "dashboard"
    /\ current_round' = "chatbot"
    /\ event' = Ev("open_chat", "ok", {})
    /\ UNCHANGED <<results, current_question_idx, audio_data, show_evaluation, file,
                   round_saved, faulted, next_taken>>

ChatOutcomes == {"return", "error"}

ReturnFromChat(outcome) ==
    /\ current_round = "chatbot"
    /\ current_round' = "dashboard"
    /\ event' = Ev("return_from_chat", outcome, {"chatbot"})
    /\ UNCHANGED <<results, current_question_idx, audio_data, show_evaluation, file,
                   round_saved, faulted, next_taken>>

----------------------------------------------------------------------------

Next ==
    \/ \E jd \in JobDescriptions, primary \in Replies, fallback \in Replies :
          SubmitJobDescription(jd, primary, fallback)
    \/ \E hr \in GeneratorOutcomes("hr"), tech \in GeneratorOutcomes("tech") :
          ConfirmDomain(hr, tech)
    \/ RejectDomain
    \/ \E d \in EditedDomains, hr \in GeneratorOutcomes("hr"),
          tech \in GeneratorOutcomes("tech") : SubmitEditedDomain(d, hr, tech)
    \/ \E outcome \in CaptureOutcomes : CaptureAnswer(outcome)
    \/ \E t \in Transcriptions, e \in Evaluator : SubmitAnswer(t, e)
    \/ ReRecord
    \/ \E save \in SaveOutcomes : NextQuestion(save)
    \/ \E save \in SaveOutcomes : Rerun(save)
    \/ \E save \in SaveOutcomes : ContinueToNextRound(save)
    \/ \E save \in SaveOutcomes : ViewResults(save)
    \/ RoundFault
    \/ \E raises \in BOOLEAN, save \in SaveOutcomes :
          StartNewInterviewAfterFault(raises, save)
    \/ StartNewInterview
    \/ OpenChat
    \/ \E outcome \in ChatOutcomes : ReturnFromChat(outcome)

Spec == Init /\ [][Next]_vars

----------------------------------------------------------------------------
(* A user who keeps going, with collaborators that succeed again and again *)

CaptureSucceeds == CaptureAnswer("audio")

SubmitSucceeds ==
    \E t \in Transcriptions, e \in Evaluator :
        /\ t.status = "ok" /\ t.text # ""
        /\ e.status = "ok" /\ has_score(e.evaluation)
        /\ SubmitAnswer(t, e)

Fairness ==
    /\ SF_vars(CaptureSucceeds)
    /\ SF_vars(SubmitSucceeds)
    /\ SF_vars(\E save \in SaveOutcomes : NextQuestion(save))
    /\ SF_vars(Rerun("ok"))
    /\ SF_vars(ContinueToNextRound("ok"))
    /\ SF_vars(ViewResults("ok"))
    /\ WF_vars(\E raises \in BOOLEAN, save \in SaveOutcomes :
                  StartNewInterviewAfterFault(raises, save))

FairSpec == Init /\ [][Next]_vars /\ Fairness

----------------------------------------------------------------------------
(* A second user session of the same script *)

\* st.session_state of the other session when its HR round is complete; this
\* session cannot see it
PeerResults ==
    [domain |-> <<"M", "L">>,
     hr_questions |-> QuestionList("hr", 1),
     tech_questions |-> QuestionList("tech", 1),
     hr_results |-> <<[question |-> <<"hr", 1>>, answer |-> "a1",
                       evaluation |-> Some([score |-> 10])]>>,
     tech_results |-> <<>>]

\* a run of the other session on its completed round: save_results opens the
\* same "interview_results.json"; nothing of this session's st.session_state
\* is within its reach
PeerRerun(save) ==
    /\ file' = save_results(PeerResults, file, save)
    /\ event' = Saved(Ev("peer_rerun", run_outcome(save), {"persister"}), save)
    /\ UNCHANGED <<results, current_round, current_question_idx, audio_data,
                   show_evaluation, round_saved, faulted, next_taken>>

TwoSessionsNext ==
    \/ Next
    \/ \E save \in SaveOutcomes : PeerRerun(save)

TwoSessions == Init /\ [][TwoSessionsNext]_vars

----------------------------------------------------------------------------
(* Properties *)

AbsentCount(rs) == Cardinality({k \in 1..Len(rs) : rs[k].evaluation = None})

InQuestionOrder(rs, qs) ==
    /\ Len(rs) <= Len(qs)
    /\ \A k \in 1..Len(rs) : rs[k].question = qs[k]

\* C1 as stated: in a round, while no evaluation is shown, the round's results
\* hold exactly current_question_idx records.
C1_AppendThenAdvance ==
    (current_round \in Rounds /\ ~show_evaluation)
        => Len(round_results) = current_question_idx

\* C1 amended: in a round, while no evaluation is shown, the round's results
\* hold current_question_idx records plus one record of absent evaluation for
\* every evaluation that failed.
C1_AppendThenAdvanceAmended ==
    (current_round \in Rounds /\ ~show_evaluation)
        => Len(round_results) = current_question_idx + AbsentCount(round_results)

C1_Witness ==
    /\ current_round \in Rounds
    /\ ~show_evaluation
    /\ event.name = "next_question"
    /\ current_question_idx = 2
    /\ Len(round_results) = 3

\* C2: each round's results hold at most one record per question, the k-th
\* record being the answer to the k-th question of the round.
C2_OneRecordPerQuestion ==
    /\ InQuestionOrder(results.hr_results, results.hr_questions)
    /\ InQuestionOrder(results.tech_results, results.tech_questions)

\* C3: a submit-answer whose transcription succeeds and whose evaluation fails
\* appends one record of absent evaluation for the current question and changes
\* nothing else: not the index, the flag, the round, nor any earlier record.
C3_EvaluatorFailure ==
    [][(event'.name = "submit_answer" /\ event'.outcome = "evaluate_failed")
         => LET key == results_key(round_type(current_round))
                n == Len(results[key])
            IN  /\ Len(results'[key]) = n + 1
                /\ SubSeq(results'[key], 1, n) = results[key]
                /\ results'[key][n + 1].question = questions[current_question_idx + 1]
                /\ results'[key][n + 1].evaluation = None
                /\ \A k \in DOMAIN results : k # key => results'[k] = results[k]
                /\ current_question_idx' = current_question_idx
                /\ ~show_evaluation /\ ~show_evaluation'
                /\ current_round' = current_round]_vars

C3_Witness ==
    /\ event.name = "submit_answer"
    /\ event.outcome = "evaluate_failed"
    /\ current_question_idx = 1
    /\ Len(round_results) = 2
    /\ round_results[1].evaluation # None
    /\ round_results[2].evaluation = None

\* C4: in a round, the evaluation is shown exactly when the last record of the
\* round has an evaluation and Next Question has not been pressed for it.
C4_ShowEvaluation ==
    current_round \in Rounds
        => (show_evaluation <=>
                /\ round_results # <<>>
                /\ round_results[Len(round_results)].evaluation # None
                /\ ~next_taken)

C4_Witness ==
    /\ current_round = "tech_round"
    /\ show_evaluation
    /\ Len(round_results) = 2
    /\ round_results[1].evaluation = None

C5_Edges ==
    { <<"none", "domain_confirmation", "submit_job_description">>,
      <<"domain_confirmation", "hr_round", "confirm_domain">>,
      <<"domain_confirmation", "domain_edit", "reject_domain">>,
      <<"domain_edit", "hr_round", "submit_edited_domain">>,
      <<"hr_round", "tech_round", "continue_to_next_round">>,
      <<"tech_round", "dashboard", "view_results">>,
      <<"dashboard", "chatbot", "open_chat">>,
      <<"chatbot", "dashboard", "return_from_chat">>,
      <<"dashboard", "none", "start_new_interview">>,
      <<"hr_round", "none", "start_new_interview">>,
      <<"tech_round", "none", "start_new_interview">> }

\* C5: current_round is one of the seven rounds and changes only along the
\* edges of the state machine, each on its own user action; a round is left
\* for none only when it has faulted.
C5_Transitions ==
    [][/\ current_round' \in AllRounds
       /\ current_round' # current_round =>
             /\ <<current_round, current_round', event'.name>> \in C5_Edges
             /\ (current_round \in Rounds /\ current_round' = "none") => faulted]_vars

C5_Witness ==
    /\ current_round = "dashboard"
    /\ event.name = "return_from_chat"

\* C6: on entering hr_round both question lists are non-empty and are what the
\* generators returned for the stored domain, the index is 0, no evaluation is
\* shown and no answer is stored.
C6_EnterHrRound ==
    (current_round = "hr_round" /\ event.name \in {"confirm_domain", "submit_edited_domain"})
        => /\ results.hr_questions # <<>>
           /\ results.tech_questions # <<>>
           /\ results.hr_questions = event.hr_out
           /\ results.tech_questions = event.tech_out
           /\ results.domain = event.text
           /\ current_question_idx = 0
           /\ ~show_evaluation
           /\ results.hr_results = <<>>
           /\ results.tech_results = <<>>

C6_Witness ==
    /\ current_round = "hr_round"
    /\ event.name = "submit_edited_domain"
    /\ Len(results.hr_questions) = 2
    /\ Len(results.tech_questions) = 1

\* C7: hr_round is left for tech_round only on continue-to-next-round, at
\* current_question_idx = len(hr_questions), with the file holding the results,
\* which have one evaluated record for every HR question; the step resets the
\* index and the flag and keeps hr_results.
C7_HrToTech ==
    [][(current_round = "hr_round" /\ current_round' = "tech_round")
         => /\ event'.name = "continue_to_next_round"
            /\ current_question_idx = Len(results.hr_questions)
            /\ file'.state = "written" /\ file'.content = json_dump(results)
            /\ Len(results.hr_results) = Len(results.hr_questions)
            /\ \A k \in 1..Len(results.hr_results) :
                  /\ results.hr_results[k].question = results.hr_questions[k]
                  /\ results.hr_results[k].evaluation # None
            /\ current_question_idx' = 0
            /\ ~show_evaluation'
            /\ results'.hr_results = results.hr_results]_vars

\* C8: after start-new-interview on the dashboard every field of the session
\* state has its initial default.
C8_Reset ==
    (event.name = "start_new_interview" /\ event.outcome = "reset")
        => /\ current_round = "none"
           /\ current_question_idx = 0
           /\ audio_data = "none"
           /\ ~show_evaluation
           /\ results.domain = <<>>
           /\ results.hr_questions = <<>>
           /\ results.tech_questions = <<>>
           /\ results.hr_results = <<>>
           /\ results.tech_results = <<>>
           /\ ~round_saved /\ ~faulted

C8_Witness ==
    /\ event.name = "start_new_interview"
    /\ event.outcome = "reset"
    /\ file.state = "previous"

C9_Malformed(jd) ==
    \/ \A i \in 1..Len(jd) : isspace(jd[i])
    \/ split_len(jd) < MinWords
    \/ Len(jd) < MinChars
    \/ ~any_alpha(jd)

\* C9: a malformed job description is rejected without calling the classifier,
\* and a blank edited domain without calling a generator; the round and the
\* results stay as they were.
C9_ValidationRejects ==
    [][/\ (event'.name = "submit_job_description" /\ C9_Malformed(event'.text))
            => /\ event'.calls = {}
               /\ current_round = "none" /\ current_round' = "none"
               /\ results' = results
       /\ (event'.name = "submit_edited_domain"
             /\ \A i \in 1..Len(event'.text) : isspace(event'.text[i]))
            => /\ event'.calls = {}
               /\ current_round = "domain_edit" /\ current_round' = "domain_edit"
               /\ results' = results]_vars

C9_Witness ==
    /\ event.name = "submit_job_description"
    /\ Len(event.text) = MinChars - 1
    /\ split_len(event.text) = MinWords
    /\ current_round = "none"

C10_Sentinel(label) ==
    /\ Len(label) = 7
    /\ \A i \in 1..7 :
          label[i] \in {<<"u","n","k","n","o","w","n">>[i], <<"U","N","K","N","O","W","N">>[i]}

\* C10: when the classifier is called, an empty label, "unknown" in any letter
\* case, or a failure of both attempts keeps current_round none and the results
\* unwritten and asks for clearer input; any other label is stored as the
\* domain and moves to domain_confirmation.
C10_UnknownBlocks ==
    [][(event'.name = "submit_job_description" /\ "classifier" \in event'.calls)
         => /\ event'.replies = <<"error", "error">> => C10_Sentinel(event'.label)
            /\ IF event'.label = <<>> \/ C10_Sentinel(event'.label)
               THEN /\ current_round' = "none"
                    /\ results' = results
                    /\ event'.outcome = "unknown"
               ELSE /\ current_round' = "domain_confirmation"
                    /\ results'.domain = event'.label]_vars

C10_Witness ==
    /\ event.name = "submit_job_description"
    /\ event.replies = <<"error", "error">>
    /\ event.outcome = "unknown"
    /\ current_round = "none"

\* C11: a confirm-domain or submit-edited-domain in which a question generator
\* fails leaves the round, the index, both question lists and the stored domain
\* as they were.
C11_GeneratorFailureAborts ==
    [][(event'.name \in {"confirm_domain", "submit_edited_domain"}
          /\ event'.outcome \in {"hr_generator_failed", "tech_generator_failed"})
         => /\ current_round' = current_round
            /\ current_question_idx' = current_question_idx
            /\ results'.hr_questions = results.hr_questions
            /\ results'.tech_questions = results.tech_questions
            /\ results'.domain = results.domain]_vars

\* the events that render a round
C12_RoundEvents ==
    {"capture", "submit_answer", "re_record", "next_question", "rerun",
     "continue_to_next_round", "view_results"}

\* C12: in a round the index lies between 0 and the number of the round's
\* questions; Next Question is taken only at an index below that number with
\* the evaluation shown; and a run of a round takes the completed branch
\* (save_results, then the round's button) exactly when the index it reads
\* equals that number.
C12_IndexInRange ==
    [][/\ current_round' \in Rounds =>
             /\ 0 <= current_question_idx'
             /\ current_question_idx' <= Len(results'[question_key(round_type(current_round'))])
       /\ event'.name = "next_question" =>
             /\ current_round \in Rounds
             /\ current_question_idx < Len(questions)
             /\ show_evaluation
             /\ current_question_idx' = current_question_idx + 1
             /\ ("persister" \in event'.calls) <=> (current_question_idx' = Len(questions))
       /\ event'.name \in C12_RoundEvents \ {"next_question"} =>
             /\ current_round \in Rounds
             /\ ("persister" \in event'.calls) <=> (current_question_idx = Len(questions))
       /\ event'.name \in {"continue_to_next_round", "view_results"} =>
             current_question_idx = Len(questions)]_vars

C12_Witness ==
    /\ current_round = "tech_round"
    /\ event.name = "next_question"
    /\ "persister" \in event.calls
    /\ current_question_idx = Len(results.tech_questions)
    /\ current_question_idx = 2

C13_Extended(old, new) ==
    /\ Len(new) = Len(old) + 1
    /\ \A k \in 1..Len(old) :
          /\ new[k].question = old[k].question
          /\ new[k].answer = old[k].answer

\* C13: every step leaves hr_results and tech_results unchanged or extended by
\* one record at the end, keeping the question and the answer of every stored
\* record; only Start New Interview (on the dashboard or on the fault screen)
\* empties them, and no failed capture, transcription, evaluation or save
\* shortens them.
C13_AnswersKept ==
    [][\A key \in {"hr_results", "tech_results"} :
          \/ results'[key] = results[key]
          \/ C13_Extended(results[key], results'[key])
          \/ /\ results'[key] = <<>>
             /\ event'.name = "start_new_interview"
             /\ event'.outcome \in {"reset", "reset_after_fault"}]_vars

C13_Witness ==
    /\ event.name = "submit_answer"
    /\ event.outcome = "evaluated"
    /\ current_round = "tech_round"
    /\ Len(results.hr_results) >= 2
    /\ Len(results.tech_results) = 2

C14_AllEvaluated(res) ==
    \A key \in {"hr_results", "tech_results"} :
        \A k \in 1..Len(res[key]) : res[key][k].evaluation # None

\* C14: between events no stored record has an absent evaluation once its
\* round is complete, in the results written to the file, and in the dashboard
\* and the chatbot.
C14_EvaluationPresent ==
    /\ (current_round \in Rounds /\ current_question_idx = Len(questions))
          => C14_AllEvaluated(results)
    /\ current_round \in {"dashboard", "chatbot"} => C14_AllEvaluated(results)
    /\ file.state = "written" => C14_AllEvaluated(json_load(file.content))

\* C17: a submit-answer whose transcription raises or comes back empty shows
\* an error, stores no record, does not call the evaluator and leaves the
\* index, the flag and the round as they were.
C17_TranscriberFailure ==
    [][(event'.name = "submit_answer"
          /\ event'.outcome \in {"transcribe_failed", "transcribe_empty"})
         => /\ event'.message # ""
            /\ results' = results
            /\ "evaluator" \notin event'.calls
            /\ current_question_idx' = current_question_idx
            /\ show_evaluation' = show_evaluation
            /\ current_round' = current_round]_vars

C18_SaveFailed(e) == "persister" \in e.calls /\ e.replies # <<"ok">>

\* C18: an event in which save_results fails shows the failure, offers neither
\* Continue nor View Results, and leaves the round, the results and the index
\* of the completed round as they were; a round is left for tech_round or
\* dashboard only in an event whose write of the file succeeded; and the file
\* is written only in an event that calls save_results.
C18_PersistenceGates ==
    [][/\ C18_SaveFailed(event') =>
             /\ event'.message = SaveFailedMessage
             /\ ~round_saved'
             /\ current_round' = current_round
             /\ results' = results
             /\ current_question_idx' = Len(questions)
             /\ event'.name # "next_question" => current_question_idx' = current_question_idx
       /\ (current_round \in Rounds /\ current_round' # current_round
             /\ current_round' \in {"tech_round", "dashboard"}) =>
             /\ "persister" \in event'.calls
             /\ event'.replies = <<"ok">>
             /\ file' = [state |-> "written", content |-> json_dump(results)]
             /\ results' = results
       /\ (file' # file /\ event'.name # "start_new_interview") =>
             "persister" \in event'.calls]_vars

C18_Witness ==
    /\ event.name = "continue_to_next_round"
    /\ C18_SaveFailed(event)
    /\ current_round = "hr_round"
    /\ file.state = "partial"
    /\ ~round_saved

\* C19: the run in which an exception escapes conduct_round leaves the round,
\* the index and the results as the handler had them when it raised; on the
\* fault screen the only action is Start New Interview, and pressing it puts
\* every field of the session state back to its default; and the index is
\* incremented only past a question whose last record has an evaluation with a
\* score.
C19_RoundFault ==
    [][/\ (~faulted /\ faulted') =>
             /\ current_round' = current_round
             /\ current_question_idx' = current_question_idx
             /\ \/ results' = results
                \/ /\ event'.name = "submit_answer"
                   /\ C13_Extended(round_results,
                                   results'[results_key(round_type(current_round))])
       /\ faulted => event'.name = "start_new_interview"
       /\ (faulted /\ event'.name = "start_new_interview") =>
             /\ results' = required_state.results
             /\ current_round' = required_state.current_round
             /\ current_question_idx' = required_state.current_question_idx
             /\ audio_data' = required_state.audio_data
             /\ show_evaluation' = required_state.show_evaluation
       /\ (current_round' = current_round /\ current_question_idx' = current_question_idx + 1) =>
             /\ round_results # <<>>
             /\ round_results[Len(round_results)].evaluation # None
             /\ has_score(round_results[Len(round_results)].evaluation[1])]_vars

\* C20: Re-record is taken only while no evaluation is shown and a recording
\* is pending; it clears the pending recording and leaves the round, the
\* index, the flag and the results as they were.  A capture that fails shows an
\* error, stores no record and leaves the index, the flag, the round and the
\* pending recording as they were.
C20_ReRecordFrame ==
    [][/\ event'.name = "re_record" =>
             /\ ~show_evaluation
             /\ audio_data # "none"
             /\ audio_data' = "none"
             /\ current_round' = current_round
             /\ current_question_idx' = current_question_idx
             /\ show_evaluation' = show_evaluation
             /\ results' = results
       /\ (event'.name = "capture" /\ event'.outcome = "capture_failed") =>
             /\ event'.message # ""
             /\ results' = results
             /\ current_question_idx' = current_question_idx
             /\ show_evaluation' = show_evaluation
             /\ current_round' = current_round
             /\ audio_data' = audio_data]_vars

C20_Witness ==
    /\ event.name = "re_record"
    /\ current_round = "tech_round"
    /\ current_question_idx = 1
    /\ Len(results.tech_results) = 2
    /\ audio_data = "none"

\* C16: a step of the other session changes nothing this session reads or
\* writes: not its results, not its cursor, and not the file holding the
\* results this session saved when its round completed.
C16_NoSharedState ==
    [][(event'.name = "peer_rerun"
          /\ file = [state |-> "written", content |-> json_dump(results)]) =>
          /\ results' = results
          /\ current_round' = current_round
          /\ current_question_idx' = current_question_idx
          /\ audio_data' = audio_data
          /\ show_evaluation' = show_evaluation
          /\ file' = file]_vars

C15_UserAction ==
    \/ \E outcome \in CaptureOutcomes : CaptureAnswer(outcome)
    \/ \E t \in Transcriptions, e \in Evaluator : SubmitAnswer(t, e)
    \/ ReRecord
    \/ \E save \in SaveOutcomes : NextQuestion(save)
    \/ \E save \in SaveOutcomes : Rerun(save)
    \/ \E save \in SaveOutcomes : ContinueToNextRound(save)
    \/ \E save \in SaveOutcomes : ViewResults(save)
    \/ \E raises \in BOOLEAN, save \in SaveOutcomes : StartNewInterviewAfterFault(raises, save)

C21_FileEqualsResults ==
    [][/\ (current_round # "dashboard" /\ current_round' = "dashboard") =>
             /\ file'.state = "written"
             /\ json_load(file'.content) = results'
       /\ (current_round = "tech_round" /\ current_round' = "dashboard") =>
             /\ "persister" \in event'.calls
             /\ results' = results
       /\ (current_round # "tech_round" /\ current_round' = "tech_round") =>
             /\ file'.state = "written"
             /\ json_load(file'.content).hr_results = results'.hr_results]_vars

C21_Witness ==
    /\ current_round = "dashboard"
    /\ event.name = "view_results"
    /\ file.state = "written"
    /\ Len(file.content.hr_results) = 2
    /\ Len(file.content.tech_results) = 3
    /\ file.content.tech_results[1].evaluation = <<"null">>

====
